---- MODULE Spec2Model ----
(***************************************************************************)
(* Newjilo backend: bearer-token HTTP handlers over the hosted provider    *)
(* (identity, tables, object storage) and the model services.              *)
(*                                                                         *)
(* The provider is the environment: its tables, storage objects and        *)
(* sessions are the state the handlers read and write.  Every handler is   *)
(* one action (handlers run to completion on the event loop: the provider  *)
(* calls are synchronous).  A handler leaves its response in `resp`;       *)
(* Deliver hands it to the client, after which the next request is taken.  *)
(***************************************************************************)
EXTENDS Integers, Sequences, FiniteSets, TLC

VARIABLES
    tables,         \* provider tables: table name -> set of rows
    nextId,         \* provider: next serial id of each table
    clock,          \* provider: time source of created_at
    storage,        \* provider: objects in the storage buckets
    nextUuid,       \* source of uuid.uuid4()
    sessions,       \* provider: the access tokens it accepts
    clientSession,  \* the session the service's shared auth client holds
    vision,         \* VisionModelService fields
    pneumonia,      \* PneumoniaModelService fields
    clip,           \* CLIPModelService fields
    resp            \* the request just handled and its response

vars == <<tables, nextId, clock, storage, nextUuid, sessions, clientSession,
          vision, pneumonia, clip, resp>>

provider == <<tables, nextId, clock, storage, nextUuid, sessions, clientSession>>
services == <<vision, pneumonia, clip>>

----------------------------------------------------------------------------
(* Bounds *)

MaxRows == 2        \* rows inserted over a run, all tables together
MaxUploads == 2     \* objects uploaded over a run

----------------------------------------------------------------------------
(* Values *)

Users == {"alice", "bob"}
NoUser == "nouser"

Tokens == {"ta", "tb", "tx"}
NoToken == "-"

\* the user a token was issued to
TokenOwner(t) == CASE t = "ta" -> "alice" [] t = "tb" -> "bob" [] OTHER -> NoUser

\* Authorization header: absent, present without the "Bearer " prefix, or
\* "Bearer <token>"
Headers ==
    {[kind |-> "none", token |-> NoToken], [kind |-> "other", token |-> "ta"]}
    \cup {[kind |-> "bearer", token |-> t] : t \in Tokens}

\* a request to an endpoint that reads no Authorization header
NoHeader == [kind |-> "none", token |-> NoToken]

TableNames == {"health_records", "vision_analysis", "pneumonia_analyses",
               "mnist_analyses", "clip_analyses", "autoglm_analyses"}

\* request bodies of POST/PUT /api/records
Payloads ==
    {[title |-> "flu", description |-> "fever", category |-> "visit", date |-> 1],
     [title |-> "xray", description |-> "chest", category |-> "lab", date |-> 2]}

\* ids a path parameter can carry: every id the provider can have assigned,
\* and one it never has
Ids == 1..(MaxRows + 1)

InsertOutcomes == {"ok", "fail"}
CallOutcomes == {"ok", "fail"}

NoRow == <<>>

\* uploaded files: the bytes, and the filename as its dot-separated parts
Images == {"empty", "corrupt", "ok"}
Filenames == {<<"scan", "png">>}

\* what the pipelines return
Captions == {"a chest x-ray"}
Labels == {"NORMAL", "PNEUMONIA"}
Digits == {"7"}
Scores == {"0.31"}

\* image_url of POST /api/autoglm/infer: any URL the client names
ClientUrls == {[bucket |-> "elsewhere", owner |-> NoUser, uid |-> 0, ext |-> "jpg"]}
NoUrl == [bucket |-> "", owner |-> NoUser, uid |-> 0, ext |-> ""]

NoPayload == [title |-> "", description |-> "", category |-> "", date |-> 0]
NoResult == "none"

Range(f) == {f[i] : i \in DOMAIN f}

----------------------------------------------------------------------------
(* The provider, as the client library shows it to the service *)

\* auth.get_user(jwt): the user of an accepted token, no user otherwise
ProviderUser(sess, t) == IF t \in sess THEN TokenOwner(t) ELSE NoUser

\* (variant: the owner filter left out of the list query)
EqUser_AllRows(rows, uid) == rows

\* .eq("user_id", uid)
EqUser(rows, uid) == {r \in rows : r.user_id = uid}

\* .eq("id", id).eq("user_id", uid)
EqIdUser(rows, id, uid) == {r \in rows : r.id = id /\ r.user_id = uid}

\* .order(column, desc=True): the orders the provider may return the rows in
\* (rows equal in the column come in any order)
OrderDesc(rows, column) ==
    {s \in [1..Cardinality(rows) -> rows] :
        /\ \A i, j \in DOMAIN s : i # j => s[i] # s[j]
        /\ \A i, j \in DOMAIN s : i < j => s[i][column] >= s[j][column]}

\* the columns the lists are ordered by
ByDate == "date"
ByCreatedAt == "created_at"

\* .insert(data): the provider assigns the id and the creation time
Inserted(tbl, fields) ==
    fields @@ [id |-> nextId[tbl], created_at |-> clock]

\* whether the run may still insert a row
CanInsert == clock <= MaxRows

InsertChoices == IF CanInsert THEN InsertOutcomes ELSE {"fail"}

\* the same with the reply of an insert that raised nothing and stored
\* nothing: execute() returns an empty data list
InsertReplies == InsertChoices \cup {"norow"}

\* the provider's sequences after a table call that left `after`
NewIds(tbl, after) == {r.id : r \in after[tbl]} \ {r.id : r \in tables[tbl]}
NextIdAfter(after) ==
    [tbl \in TableNames |-> nextId[tbl] + Cardinality(NewIds(tbl, after))]
ClockAfter(after) ==
    clock + Cardinality({tbl \in TableNames : NewIds(tbl, after) # {}})

----------------------------------------------------------------------------
(* SupabaseService: results are {"success", "data", "error"} dictionaries.   *)
(* data is <<>> for None, <<row>> for one row, a longer sequence for a list. *)
(* Each result also carries the provider calls made, in order, the call     *)
(* that raised, if one did, and the tables as the calls left them.           *)

\* the call that raised, when the error is a failed provider call
FaultOf(err, calls) ==
    IF err = "call failed" THEN {calls[Len(calls)]} ELSE {}

Failure(err, calls) ==
    [success |-> FALSE, data |-> <<>>, error |-> err, calls |-> calls,
     faults |-> FaultOf(err, calls), tables |-> tables]
Success(data, calls, after) ==
    [success |-> TRUE, data |-> data, error |-> "", calls |-> calls,
     faults |-> {}, tables |-> after]

\* (variant: a token the provider rejects is taken for the first user)
get_user_Fallback(t) ==
    IF ProviderUser(sessions, t) = NoUser THEN "alice"
    ELSE ProviderUser(sessions, t)

get_user(t) == ProviderUser(sessions, t)

\* (variant: the title written into the description column)
create_health_record_Swapped(t, p, out) ==
    LET user == get_user(t)
        row == Inserted("health_records",
                        [user_id |-> user, title |-> p.title,
                         description |-> p.title, category |-> p.category,
                         date |-> p.date])
    IN  IF user = NoUser THEN Failure("Invalid token", <<"auth">>)
        ELSE IF out = "fail" THEN Failure("call failed", <<"auth", "insert">>)
        ELSE Success(<<row>>, <<"auth", "insert">>,
                     [tables EXCEPT !["health_records"] = @ \cup {row}])

create_health_record(t, p, out) ==
    LET user == get_user(t)
        row == Inserted("health_records", [user_id |-> user] @@ p)
    IN  IF user = NoUser THEN Failure("Invalid token", <<"auth">>)
        ELSE IF out = "fail" THEN Failure("call failed", <<"auth", "insert">>)
        ELSE Success(<<row>>, <<"auth", "insert">>,
                     [tables EXCEPT !["health_records"] = @ \cup {row}])

\* .select("*").eq("user_id", uid).order(column, desc=True): the answers the
\* provider may give
OwnRows(tbl, t, column) ==
    OrderDesc(EqUser(tables[tbl], get_user(t)), column)

\* `order` is the provider's answer
get_health_records(t, out, order) ==
    LET user == get_user(t)
    IN  IF user = NoUser THEN Failure("Invalid token", <<"auth">>)
        ELSE IF out = "fail" THEN Failure("call failed", <<"auth", "select">>)
        ELSE Success(order, <<"auth", "select">>, tables)

\* (variant: no row is answered with data None instead of raising)
get_health_record_MaybeSingle(t, id, out) ==
    LET user == get_user(t)
        found == EqIdUser(tables["health_records"], id, user)
    IN  IF user = NoUser THEN Failure("Invalid token", <<"auth">>)
        ELSE IF out = "fail" THEN Failure("call failed", <<"auth", "select">>)
        ELSE Success(IF found = {} THEN <<>> ELSE <<CHOOSE r \in found : TRUE>>,
                     <<"auth", "select">>, tables)

\* .single() raises unless exactly one row matches
get_health_record(t, id, out) ==
    LET user == get_user(t)
        found == EqIdUser(tables["health_records"], id, user)
    IN  IF user = NoUser THEN Failure("Invalid token", <<"auth">>)
        ELSE IF out = "fail" THEN Failure("call failed", <<"auth", "select">>)
        ELSE IF Cardinality(found) # 1
             THEN Failure("no rows", <<"auth", "select">>)
        ELSE Success(<<CHOOSE r \in found : TRUE>>, <<"auth", "select">>, tables)

\* .update(data).eq("id", id).eq("user_id", uid): the rows it leaves
\* (variant: update filtered by id alone)
UpdatedRows_AnyOwner(rows, id, uid, p) ==
    {IF r.id = id
        THEN [r EXCEPT !.title = p.title, !.description = p.description,
                       !.category = p.category, !.date = p.date]
        ELSE r : r \in rows}

UpdatedRows(rows, id, uid, p) ==
    {IF r \in EqIdUser(rows, id, uid)
        THEN [r EXCEPT !.title = p.title, !.description = p.description,
                       !.category = p.category, !.date = p.date]
        ELSE r : r \in rows}

update_health_record(t, id, p, out) ==
    LET user == get_user(t)
        now == UpdatedRows(tables["health_records"], id, user, p)
        hit == EqIdUser(now, id, user)
    IN  IF user = NoUser THEN Failure("Invalid token", <<"auth">>)
        ELSE IF out = "fail" THEN Failure("call failed", <<"auth", "update">>)
        ELSE Success(IF hit = {} THEN <<>> ELSE <<CHOOSE r \in hit : TRUE>>,
                     <<"auth", "update">>,
                     [tables EXCEPT !["health_records"] = now])

\* (variant: delete filtered by id alone)
RemainingRows_AnyOwner(rows, id, uid) == {r \in rows : r.id # id}

\* .delete().eq("id", id).eq("user_id", uid): the rows it leaves
RemainingRows(rows, id, uid) == rows \ EqIdUser(rows, id, uid)

delete_health_record(t, id, out) ==
    LET user == get_user(t)
    IN  IF user = NoUser THEN Failure("Invalid token", <<"auth">>)
        ELSE IF out = "fail" THEN Failure("call failed", <<"auth", "delete">>)
        ELSE Success(<<>>, <<"auth", "delete">>,
                     [tables EXCEPT !["health_records"] =
                         RemainingRows(@, id, user)])

----------------------------------------------------------------------------
(* SupabaseService: storage.  The public URL of an object is modelled by   *)
(* the object's bucket and path.                                           *)

UploadFailure(err, calls) ==
    [success |-> FALSE, url |-> NoUrl, error |-> err, calls |-> calls,
     faults |-> FaultOf(err, calls), storage |-> storage]

\* filename.split('.')[-1] if '.' in filename else default
FileExtension(filename, default) ==
    IF Len(filename) > 1 THEN filename[Len(filename)] ELSE default

\* (variant: every user's files under one folder)
UniqueFilename_SharedFolder(bucket, user, ext) ==
    [bucket |-> bucket, owner |-> "shared", uid |-> nextUuid, ext |-> ext]

\* f"{user['id']}/{uuid.uuid4()}.{file_extension}" in `bucket`
UniqueFilename(bucket, user, ext) ==
    [bucket |-> bucket, owner |-> user, uid |-> nextUuid, ext |-> ext]

CanUpload == nextUuid <= MaxUploads

UploadChoices == IF CanUpload THEN CallOutcomes ELSE {"fail"}

Upload(bucket, default, t, filename, out) ==
    LET user == get_user(t)
        obj == UniqueFilename(bucket, user, FileExtension(filename, default))
    IN  IF user = NoUser THEN UploadFailure("Invalid token", <<"auth">>)
        ELSE IF out = "fail" THEN UploadFailure("call failed", <<"auth", "upload">>)
        ELSE [success |-> TRUE, url |-> obj, error |-> "",
              calls |-> <<"auth", "upload">>, faults |-> {},
              storage |-> storage \cup {obj}]

upload_image(t, filename, out) ==
    Upload("health-images", "jpg", t, filename, out)
upload_mnist_image(t, filename, out) ==
    Upload("mnist_images", "png", t, filename, out)
upload_pneumonia_image(t, filename, out) ==
    Upload("pneumonia_images", "jpg", t, filename, out)

\* uuid4 values are not drawn twice
NextUuidAfter(after) == nextUuid + Cardinality(after \ storage)

----------------------------------------------------------------------------
(* SupabaseService: the analysis tables *)

\* (variant: the row is written although the call reports a failure)
InsertAnalysis_WritesOnFailure(tbl, t, url, result, out) ==
    LET user == get_user(t)
        row == Inserted(tbl, [user_id |-> user, image_url |-> url,
                              result |-> result])
        written == [tables EXCEPT ![tbl] = @ \cup {row}]
    IN  IF user = NoUser THEN Failure("Invalid token", <<"auth">>)
        ELSE IF out = "fail"
            THEN [Failure("call failed", <<"auth", "insert">>)
                     EXCEPT !.tables = written]
        ELSE Success(<<row>>, <<"auth", "insert">>, written)

InsertAnalysis(tbl, t, url, result, out) ==
    LET user == get_user(t)
        row == Inserted(tbl, [user_id |-> user, image_url |-> url,
                              result |-> result])
    IN  IF user = NoUser THEN Failure("Invalid token", <<"auth">>)
        ELSE IF out = "fail" THEN Failure("call failed", <<"auth", "insert">>)
        ELSE IF out = "norow" THEN Success(<<>>, <<"auth", "insert">>, tables)
        ELSE Success(<<row>>, <<"auth", "insert">>,
                     [tables EXCEPT ![tbl] = @ \cup {row}])

create_vision_analysis(t, url, result, out) ==
    InsertAnalysis("vision_analysis", t, url, result, out)
\* create_pneumonia_analysis prints response.data[0]['id'] before it
\* returns: an empty data list raises there and the method returns a failure
create_pneumonia_analysis(t, url, result, out) ==
    LET r == InsertAnalysis("pneumonia_analyses", t, url, result, out)
    IN  IF r.success /\ r.data = <<>>
        THEN Failure("list index out of range", r.calls)
        ELSE r
create_mnist_analysis(t, url, result, out) ==
    InsertAnalysis("mnist_analyses", t, url, result, out)
create_clip_analysis(t, url, result, out) ==
    InsertAnalysis("clip_analyses", t, url, result, out)
create_autoglm_analysis(t, url, result, out) ==
    InsertAnalysis("autoglm_analyses", t, url, result, out)

ListAnalyses(t, out, order) ==
    LET user == get_user(t)
    IN  IF user = NoUser THEN Failure("Invalid token", <<"auth">>)
        ELSE IF out = "fail" THEN Failure("call failed", <<"auth", "select">>)
        ELSE Success(order, <<"auth", "select">>, tables)

get_vision_analyses(t, out, order) == ListAnalyses(t, out, order)
get_pneumonia_analyses(t, out, order) == ListAnalyses(t, out, order)

GetAnalysis(tbl, t, id, out) ==
    LET user == get_user(t)
        found == EqIdUser(tables[tbl], id, user)
    IN  IF user = NoUser THEN Failure("Invalid token", <<"auth">>)
        ELSE IF out = "fail" THEN Failure("call failed", <<"auth", "select">>)
        ELSE IF Cardinality(found) # 1
             THEN Failure("no rows", <<"auth", "select">>)
        ELSE Success(<<CHOOSE r \in found : TRUE>>, <<"auth", "select">>, tables)

get_vision_analysis(t, id, out) == GetAnalysis("vision_analysis", t, id, out)
get_pneumonia_analysis(t, id, out) ==
    GetAnalysis("pneumonia_analyses", t, id, out)

\* (variant: the delete is acknowledged and removes no row)
DeleteAnalysis_KeepsRows(tbl, t, id, out) ==
    LET user == get_user(t)
    IN  IF user = NoUser THEN Failure("Invalid token", <<"auth">>)
        ELSE IF out = "fail" THEN Failure("call failed", <<"auth", "delete">>)
        ELSE Success(<<>>, <<"auth", "delete">>, tables)

DeleteAnalysis(tbl, t, id, out) ==
    LET user == get_user(t)
    IN  IF user = NoUser THEN Failure("Invalid token", <<"auth">>)
        ELSE IF out = "fail" THEN Failure("call failed", <<"auth", "delete">>)
        ELSE Success(<<>>, <<"auth", "delete">>,
                     [tables EXCEPT ![tbl] = RemainingRows(@, id, user)])

delete_vision_analysis(t, id, out) ==
    DeleteAnalysis("vision_analysis", t, id, out)
delete_pneumonia_analysis(t, id, out) ==
    DeleteAnalysis("pneumonia_analyses", t, id, out)

----------------------------------------------------------------------------
(* models/pneumonia_model.py: classification.  A score or confidence is    *)
(* written in hundredths: 95 is 0.95.  The pipeline returns a sequence of  *)
(* [label, score] records; the empty sequence also stands for a pipeline   *)
(* call that raised.                                                       *)

\* str.upper() on the labels a pipeline can return
Upper(label) ==
    CASE label \in {"PNEUMONIA", "Pneumonia", "pneumonia"} -> "PNEUMONIA"
      [] label \in {"NORMAL", "Normal", "normal"} -> "NORMAL"
      [] OTHER -> label

\* (variant: a boundary value belongs to the lower tier)
determine_severity_Strict(confidence, is_pneumonia) ==
    IF ~is_pneumonia THEN "Normal"
    ELSE IF confidence > 95 THEN "High Confidence - Pneumonia Detected"
    ELSE IF confidence > 80 THEN "Moderate Confidence - Pneumonia Likely"
    ELSE IF confidence > 60 THEN "Low Confidence - Pneumonia Possible"
    ELSE "Very Low Confidence - Unclear"

determine_severity(confidence, is_pneumonia) ==
    IF ~is_pneumonia THEN "Normal"
    ELSE IF confidence >= 95 THEN "High Confidence - Pneumonia Detected"
    ELSE IF confidence >= 80 THEN "Moderate Confidence - Pneumonia Likely"
    ELSE IF confidence >= 60 THEN "Low Confidence - Pneumonia Possible"
    ELSE "Very Low Confidence - Unclear"

get_recommendation(is_pneumonia, confidence) ==
    IF ~is_pneumonia
    THEN IF confidence >= 90 THEN "normal: continue regular monitoring"
         ELSE "mostly normal: consider follow-up"
    ELSE IF confidence >= 90 THEN "HIGH PRIORITY"
    ELSE IF confidence >= 75 THEN "MODERATE PRIORITY"
    ELSE IF confidence >= 60 THEN "LOW PRIORITY"
    ELSE "inconclusive"

NoClassification ==
    [prediction |-> NoResult, confidence |-> 0, is_pneumonia |-> FALSE,
     severity |-> "", recommendation |-> "", all_predictions |-> <<>>]

\* sorted(results, key=score, reverse=True): a stable sort, entries of equal
\* score keep the order they came in
RECURSIVE SortedByScore(_)
SortedByScore(results) ==
    IF results = <<>> THEN <<>>
    ELSE LET rest == SortedByScore(Tail(results))
             first == Head(results)
             before == {i \in 0..Len(rest) :
                          \A j \in 1..i : rest[j].score > first.score}
             k == CHOOSE i \in before : \A j \in before : j <= i
         IN  SubSeq(rest, 1, k) \o <<first>> \o SubSeq(rest, k + 1, Len(rest))

\* the all_predictions entry of the result
AllPredictions(results) ==
    [i \in 1..Len(results) |->
        [label |-> SortedByScore(results)[i].label,
         confidence |-> SortedByScore(results)[i].score]]

\* (variant: the last entry of the pipeline's list is taken)
classify_xray_LastResult(results) ==
    IF results = <<>> THEN NoClassification
    ELSE LET top_prediction == results[Len(results)]
             is_pneumonia == Upper(top_prediction.label) = "PNEUMONIA"
         IN  [prediction |-> top_prediction.label,
              confidence |-> top_prediction.score,
              is_pneumonia |-> is_pneumonia,
              severity |-> determine_severity(top_prediction.score, is_pneumonia),
              recommendation |-> get_recommendation(is_pneumonia,
                                                    top_prediction.score),
              all_predictions |-> AllPredictions(results)]

\* classify_xray(image), given what self.pipe(image) returns; raises
\* (NoClassification) when the pipeline returns nothing
classify_xray(results) ==
    IF results = <<>> THEN NoClassification
    ELSE LET top_prediction == results[1]
             prediction_label == top_prediction.label
             confidence == top_prediction.score
             is_pneumonia == Upper(prediction_label) = "PNEUMONIA"
         IN  [prediction |-> prediction_label, confidence |-> confidence,
              is_pneumonia |-> is_pneumonia,
              severity |-> determine_severity(confidence, is_pneumonia),
              recommendation |-> get_recommendation(is_pneumonia, confidence),
              all_predictions |-> AllPredictions(results)]

\* pipeline outputs of the X-rays posted to the API
XrayResults ==
    {<<[label |-> "PNEUMONIA", score |-> 96], [label |-> "NORMAL", score |-> 4]>>,
     <<[label |-> "NORMAL", score |-> 70], [label |-> "PNEUMONIA", score |-> 30]>>}

----------------------------------------------------------------------------
(* HTTP layer.  A response is a status and a JSON body; `success` is        *)
(* "true", or "absent" when the body has no such key (an HTTPException      *)
(* body is {"detail": ...}).                                                *)

Idle ==
    [ep |-> "idle", hdr |-> [kind |-> "none", token |-> NoToken], id |-> 0,
     payload |-> NoPayload, image |-> "none", pipe |-> <<>>, status |-> 0,
     success |-> "absent", data |-> <<>>, count |-> -1, result |-> NoResult,
     image_url |-> NoUrl, analysis_id |-> 0, created_at |-> 0,
     classification |-> NoClassification, calls |-> <<>>, faults |-> {},
     pre |-> [tbl \in TableNames |-> {}], stored |-> {},
     loaded |-> [vision |-> TRUE, pneumonia |-> TRUE, clip |-> TRUE]]

\* the previous response has gone out: the next request is taken
Idling == resp.ep = "idle"

Request(ep, h, id, p) ==
    [ep |-> ep, hdr |-> h, id |-> id, payload |-> p, image |-> "none",
     pipe |-> <<>>]
Upload_Request(ep, h, img) ==
    [ep |-> ep, hdr |-> h, id |-> 0, payload |-> NoPayload, image |-> img,
     pipe |-> <<>>]
\* an X-ray upload, with what the classification pipeline returns on it
Xray_Request(ep, h, img, results) ==
    [ep |-> ep, hdr |-> h, id |-> 0, payload |-> NoPayload, image |-> img,
     pipe |-> results]

\* raise HTTPException(status_code=status)
HTTPError(status) ==
    [status |-> status, success |-> "absent", data |-> <<>>, count |-> -1,
     result |-> NoResult, image_url |-> NoUrl, analysis_id |-> 0, created_at |-> 0,
     classification |-> NoClassification]

\* an exception that is no HTTPException, on its way up the handler
Unhandled == HTTPError(0)

\* return {"success": True, "data": data[, "count": count]}
Json(data, count) ==
    [status |-> 200, success |-> "true", data |-> data, count |-> count,
     result |-> NoResult, image_url |-> NoUrl, analysis_id |-> 0, created_at |-> 0,
     classification |-> NoClassification]

\* return {"success": True, <result>, "image_url": url, "analysis_id": id}
\* (analysis_id 0 is null)
JsonResult(result, url, id) ==
    [status |-> 200, success |-> "true", data |-> <<>>, count |-> -1,
     result |-> result, image_url |-> url, analysis_id |-> id,
     created_at |-> 0,
     classification |-> NoClassification]

\* return JSONResponse(200, {"success": True, "data": {"image_url",
\* "classification", "analysis_id"}}); the prediction is also the result
\* (variant: the id and the time are read from the provider's counters, not
\* from the row the insert returned)
JsonClassification_FromCounters(classification_result, url, id, created_at) ==
    [JsonResult(classification_result.prediction, url,
                nextId["pneumonia_analyses"])
        EXCEPT !.classification = classification_result,
               !.created_at = clock]

JsonClassification(classification_result, url, id, created_at) ==
    [JsonResult(classification_result.prediction, url, id)
        EXCEPT !.classification = classification_result,
               !.created_at = created_at]

\* the handler's outcome as the client sees it, with the calls it made, the
\* calls that raised, and the tables, stored objects and model services it
\* found
Respond(req, out, calls, faults) ==
    req @@ out @@
    [calls |-> calls, faults |-> faults, pre |-> tables, stored |-> storage,
     loaded |-> [vision |-> vision.model_loaded,
                 pneumonia |-> pneumonia.model_loaded,
                 clip |-> clip.model_loaded]]

\* (variant: any header that is present passes)
HasBearer_AnyHeader(h) == h.kind # "none"

\* authorization and authorization.startswith("Bearer ")
HasBearer(h) == h.kind = "bearer"

\* try: ... except Exception: raise HTTPException(500): an HTTPException
\* raised in the body is an Exception and is caught too
ExceptException(out) == IF out.status # 200 THEN HTTPError(500) ELSE out

\* try: ... except HTTPException: raise; except Exception: raise
\* HTTPException(500)
ExceptHTTPException(out) == IF out.status = 0 THEN HTTPError(500) ELSE out

\* the provider's state after the service call that returned r
Commit(r) ==
    /\ tables' = r.tables
    /\ nextId' = NextIdAfter(r.tables)
    /\ clock' = ClockAfter(r.tables)

Rejected(req) ==
    /\ resp' = Respond(req, HTTPError(401), <<>>, {})
    /\ UNCHANGED <<provider, services>>

----------------------------------------------------------------------------
(* models/: the model services.  __init__ calls load_model() once.         *)

NotStarted == [model_loaded |-> FALSE, loading_status |-> "Not started",
               loading_progress |-> 0]
Loaded == [model_loaded |-> TRUE, loading_status |-> "Ready",
           loading_progress |-> 100]
LoadFailed == [model_loaded |-> FALSE, loading_status |-> "Error",
               loading_progress |-> 0]

\* the writes of load_model() up to the pipeline(...) call
Loading(m) ==
    [[m EXCEPT !.loading_status = "Loading", !.loading_progress = 20]
        EXCEPT !.loading_progress = 50]

\* (variant: the except branch leaves the progress where it was)
load_model_KeepsProgress(m, out) ==
    IF m.model_loaded THEN m
    ELSE IF out = "ok"
        THEN [Loading(m) EXCEPT !.loading_progress = 100,
                                !.loading_status = "Ready",
                                !.model_loaded = TRUE]
    ELSE [Loading(m) EXCEPT !.loading_status = "Error",
                            !.model_loaded = FALSE]

\* load_model(): nothing when already loaded, else the pipeline is built
\* (out = "ok") or building it raises; the method runs to its end before
\* any request is served (it is called while the module is imported, or
\* synchronously inside a handler)
load_model(m, out) ==
    IF m.model_loaded THEN m
    ELSE IF out = "ok"
        THEN [Loading(m) EXCEPT !.loading_progress = 100,
                                !.loading_status = "Ready",
                                !.model_loaded = TRUE]
    ELSE [Loading(m) EXCEPT !.loading_status = "Error",
                            !.loading_progress = 0,
                            !.model_loaded = FALSE]

\* get_loading_status()
get_loading_status(m) ==
    [loaded |-> m.model_loaded, status |-> m.loading_status,
     progress |-> m.loading_progress]

LoadChoices(m) == IF m.model_loaded THEN {"ok"} ELSE {"ok", "fail"}

\* CLIPModelService._load_model(): no guard, called by __init__ alone
clip_load_model(m, out) ==
    IF out = "ok"
        THEN [[[m EXCEPT !.loading_status = "Loading", !.loading_progress = 30]
                  EXCEPT !.loading_progress = 70]
                  EXCEPT !.loading_status = "Ready",
                         !.loading_progress = 100,
                         !.model_loaded = TRUE]
    ELSE [[m EXCEPT !.loading_status = "Loading", !.loading_progress = 30]
             EXCEPT !.loading_status = "Error",
                    !.loading_progress = 0,
                    !.model_loaded = FALSE]

\* the singletons are constructed as main.py imports the modules: vision,
\* pneumonia, then clip; each __init__ loads its model
import_vision_model ==
    /\ vision = NotStarted
    /\ \E out \in CallOutcomes : vision' = load_model(vision, out)
    /\ UNCHANGED <<provider, pneumonia, clip, resp>>

import_pneumonia_model ==
    /\ vision # NotStarted
    /\ pneumonia = NotStarted
    /\ \E out \in CallOutcomes : pneumonia' = load_model(pneumonia, out)
    /\ UNCHANGED <<provider, vision, clip, resp>>

import_clip_model ==
    /\ pneumonia # NotStarted
    /\ clip = NotStarted
    /\ \E out \in CallOutcomes : clip' = clip_load_model(clip, out)
    /\ UNCHANGED <<provider, vision, pneumonia, resp>>

\* the application serves requests once every module is imported
Started == NotStarted \notin {vision, pneumonia, clip}

----------------------------------------------------------------------------
(* api/records.py *)

create_record ==
    /\ Idling
    /\ \E h \in Headers, p \in Payloads, ins \in InsertChoices :
        LET req == Request("create_record", h, 0, p)
            r == create_health_record(h.token, p, ins)
        IN  IF ~HasBearer(h) THEN Rejected(req)
            ELSE /\ Commit(r)
                 /\ resp' = Respond(req,
                        ExceptException(IF r.success THEN Json(r.data, -1)
                                        ELSE HTTPError(400)),
                        r.calls, r.faults)
                 /\ UNCHANGED <<storage, nextUuid, sessions, clientSession, services>>

get_records ==
    /\ Idling
    /\ \E h \in Headers, out \in CallOutcomes :
        LET req == Request("get_records", h, 0, NoPayload)
        IN  IF ~HasBearer(h) THEN Rejected(req)
            ELSE \E order \in OwnRows("health_records", h.token, ByDate) :
                 LET r == get_health_records(h.token, out, order)
                 IN  /\ Commit(r)
                     /\ resp' = Respond(req,
                            IF r.success THEN Json(r.data, Len(r.data))
                            ELSE HTTPError(400),
                            r.calls, r.faults)
                     /\ UNCHANGED <<storage, nextUuid, sessions, clientSession, services>>

\* what get_record answers once the header has passed
get_record_response(r) ==
    IF r.success THEN Json(r.data, -1) ELSE HTTPError(404)

get_record ==
    /\ Idling
    /\ \E h \in Headers, id \in Ids, out \in CallOutcomes :
        LET req == Request("get_record", h, id, NoPayload)
            r == get_health_record(h.token, id, out)
        IN  IF ~HasBearer(h) THEN Rejected(req)
            ELSE /\ Commit(r)
                 /\ resp' = Respond(req, get_record_response(r), r.calls,
                                    r.faults)
                 /\ UNCHANGED <<storage, nextUuid, sessions, clientSession, services>>

update_record ==
    /\ Idling
    /\ \E h \in Headers, id \in Ids, p \in Payloads, out \in CallOutcomes :
        LET req == Request("update_record", h, id, p)
            r == update_health_record(h.token, id, p, out)
        IN  IF ~HasBearer(h) THEN Rejected(req)
            ELSE /\ Commit(r)
                 /\ resp' = Respond(req,
                        ExceptException(IF r.success THEN Json(r.data, -1)
                                        ELSE HTTPError(400)),
                        r.calls, r.faults)
                 /\ UNCHANGED <<storage, nextUuid, sessions, clientSession, services>>

delete_record ==
    /\ Idling
    /\ \E h \in Headers, id \in Ids, out \in CallOutcomes :
        LET req == Request("delete_record", h, id, NoPayload)
            r == delete_health_record(h.token, id, out)
        IN  IF ~HasBearer(h) THEN Rejected(req)
            ELSE /\ Commit(r)
                 /\ resp' = Respond(req,
                        IF r.success THEN Json(<<>>, -1) ELSE HTTPError(400),
                        r.calls, r.faults)
                 /\ UNCHANGED <<storage, nextUuid, sessions, clientSession, services>>

----------------------------------------------------------------------------
(* Handlers that make several calls: the outcome, the calls made in order  *)
(* and the provider and service state the handler leaves.                  *)

Run(out, calls, faults, tbls, objs, vis) ==
    [out |-> out, calls |-> calls, faults |-> faults, tables |-> tbls,
     storage |-> objs, vision |-> vis]

\* (variant: every handler that finishes marks the pneumonia service busy)
Finish_MarksBusy(req, run, out) ==
    /\ tables' = run.tables
    /\ nextId' = NextIdAfter(run.tables)
    /\ clock' = ClockAfter(run.tables)
    /\ storage' = run.storage
    /\ nextUuid' = NextUuidAfter(run.storage)
    /\ vision' = run.vision
    /\ pneumonia' = [pneumonia EXCEPT !.loading_status = "Busy"]
    /\ resp' = Respond(req, out, run.calls, run.faults)
    /\ UNCHANGED <<sessions, clientSession, clip>>

Finish(req, run, out) ==
    /\ tables' = run.tables
    /\ nextId' = NextIdAfter(run.tables)
    /\ clock' = ClockAfter(run.tables)
    /\ storage' = run.storage
    /\ nextUuid' = NextUuidAfter(run.storage)
    /\ vision' = run.vision
    /\ resp' = Respond(req, out, run.calls, run.faults)
    /\ UNCHANGED <<sessions, clientSession, pneumonia, clip>>

----------------------------------------------------------------------------
(* api/vision.py *)

analyze_image_body(t, img, filename, up, load, inf, ins) ==
    LET u == upload_image(t, filename, up)
        v == load_model(vision, load)
        loading == IF vision.model_loaded THEN <<>> ELSE <<"load">>
        r == create_vision_analysis(t, u.url, CHOOSE c \in Captions : TRUE, ins)
    IN  IF ~u.success
            THEN Run(HTTPError(400), u.calls, u.faults, tables, u.storage,
                     vision)
        ELSE IF ~v.model_loaded
            THEN Run(HTTPError(503), u.calls \o loading, {"load"}, tables,
                     u.storage, v)
        ELSE IF img # "ok"
            THEN Run(Unhandled, u.calls \o loading, {}, tables, u.storage, v)
        ELSE IF inf = "fail"
            THEN Run(Unhandled, u.calls \o loading \o <<"inference">>,
                     {"inference"}, tables, u.storage, v)
        ELSE IF ~r.success
            THEN Run(HTTPError(400),
                     u.calls \o loading \o <<"inference">> \o r.calls,
                     r.faults, r.tables, u.storage, v)
        ELSE Run(Json(r.data, -1),
                 u.calls \o loading \o <<"inference">> \o r.calls, {},
                 r.tables, u.storage, v)

analyze_image ==
    /\ Idling
    /\ \E h \in Headers, img \in Images, filename \in Filenames,
          up \in UploadChoices, load \in LoadChoices(vision),
          inf \in CallOutcomes, ins \in InsertChoices :
        LET req == Upload_Request("analyze_image", h, img)
            run == analyze_image_body(h.token, img, filename, up, load, inf, ins)
        IN  IF ~HasBearer(h) THEN Rejected(req)
            ELSE Finish(req, run, ExceptException(run.out))

get_analysis_history ==
    /\ Idling
    /\ \E h \in Headers, out \in CallOutcomes :
        LET req == Request("get_analysis_history", h, 0, NoPayload)
        IN  IF ~HasBearer(h) THEN Rejected(req)
            ELSE \E order \in OwnRows("vision_analysis", h.token, ByCreatedAt) :
                 LET r == get_vision_analyses(h.token, out, order)
                 IN  /\ Commit(r)
                     /\ resp' = Respond(req,
                            IF r.success THEN Json(r.data, Len(r.data))
                            ELSE HTTPError(400),
                            r.calls, r.faults)
                     /\ UNCHANGED <<storage, nextUuid, sessions, clientSession, services>>

get_analysis ==
    /\ Idling
    /\ \E h \in Headers, id \in Ids, out \in CallOutcomes :
        LET req == Request("get_analysis", h, id, NoPayload)
            r == get_vision_analysis(h.token, id, out)
        IN  IF ~HasBearer(h) THEN Rejected(req)
            ELSE /\ Commit(r)
                 /\ resp' = Respond(req,
                        IF r.success THEN Json(r.data, -1) ELSE HTTPError(404),
                        r.calls, r.faults)
                 /\ UNCHANGED <<storage, nextUuid, sessions, clientSession, services>>

delete_analysis ==
    /\ Idling
    /\ \E h \in Headers, id \in Ids, out \in CallOutcomes :
        LET req == Request("delete_analysis", h, id, NoPayload)
            r == delete_vision_analysis(h.token, id, out)
        IN  IF ~HasBearer(h) THEN Rejected(req)
            ELSE /\ Commit(r)
                 /\ resp' = Respond(req,
                        IF r.success THEN Json(<<>>, -1) ELSE HTTPError(400),
                        r.calls, r.faults)
                 /\ UNCHANGED <<storage, nextUuid, sessions, clientSession, services>>

----------------------------------------------------------------------------
(* api/pneumonia.py *)

analyze_xray_body(t, img, filename, up, results, ins) ==
    LET status == get_loading_status(pneumonia)
        u == upload_pneumonia_image(t, filename, up)
        classification_result == classify_xray(results)
        r == create_pneumonia_analysis(t, u.url,
                                       classification_result.prediction, ins)
    IN  IF img = "empty"
            THEN Run(HTTPError(400), <<>>, {}, tables, storage, vision)
        ELSE IF ~status.loaded
            THEN Run(HTTPError(503), <<>>, {}, tables, storage, vision)
        ELSE IF img # "ok"
            THEN Run(Unhandled, <<>>, {}, tables, storage, vision)
        ELSE IF ~u.success
            THEN Run(HTTPError(400), u.calls, u.faults, tables, u.storage,
                     vision)
        ELSE IF results = <<>>
            THEN Run(Unhandled, u.calls \o <<"inference">>, {"inference"},
                     tables, u.storage, vision)
        ELSE Run(JsonClassification(classification_result, u.url,
                            IF r.success THEN r.data[1].id ELSE 0,
                            IF r.success THEN r.data[1].created_at ELSE 0),
                 u.calls \o <<"inference">> \o r.calls, r.faults, r.tables,
                 u.storage, vision)

analyze_xray_replying(replies) ==
    /\ Idling
    /\ \E h \in Headers, img \in Images, filename \in Filenames,
          up \in UploadChoices, results \in XrayResults \cup {<<>>},
          ins \in replies :
        LET req == Xray_Request("analyze_xray", h, img, results)
            run == analyze_xray_body(h.token, img, filename, up, results, ins)
        IN  IF ~HasBearer(h) THEN Rejected(req)
            ELSE Finish(req, run, ExceptHTTPException(run.out))

analyze_xray == analyze_xray_replying(InsertChoices)

\* pneumonia_model_service.classify_xray applied to the pipeline output
\* that the state holds
Classify ==
    /\ resp.ep = "pipeline"
    /\ resp' = [resp EXCEPT !.ep = "classify_xray",
                            !.classification = classify_xray(resp.pipe)]
    /\ UNCHANGED <<provider, services>>

get_pneumonia_history ==
    /\ Idling
    /\ \E h \in Headers, out \in CallOutcomes :
        LET req == Request("get_pneumonia_history", h, 0, NoPayload)
        IN  IF ~HasBearer(h) THEN Rejected(req)
            ELSE \E order \in OwnRows("pneumonia_analyses", h.token, ByCreatedAt) :
                 LET r == get_pneumonia_analyses(h.token, out, order)
                 IN  /\ Commit(r)
                     /\ resp' = Respond(req,
                            IF r.success THEN Json(r.data, Len(r.data))
                            ELSE HTTPError(400),
                            r.calls, r.faults)
                     /\ UNCHANGED <<storage, nextUuid, sessions, clientSession, services>>

get_pneumonia_analysis_ep ==
    /\ Idling
    /\ \E h \in Headers, id \in Ids, out \in CallOutcomes :
        LET req == Request("get_pneumonia_analysis", h, id, NoPayload)
            r == get_pneumonia_analysis(h.token, id, out)
        IN  IF ~HasBearer(h) THEN Rejected(req)
            ELSE /\ Commit(r)
                 /\ resp' = Respond(req,
                        IF r.success THEN Json(r.data, -1) ELSE HTTPError(404),
                        r.calls, r.faults)
                 /\ UNCHANGED <<storage, nextUuid, sessions, clientSession, services>>

delete_pneumonia_analysis_ep ==
    /\ Idling
    /\ \E h \in Headers, id \in Ids, out \in CallOutcomes :
        LET req == Request("delete_pneumonia_analysis", h, id, NoPayload)
            r == delete_pneumonia_analysis(h.token, id, out)
        IN  IF ~HasBearer(h) THEN Rejected(req)
            ELSE /\ Commit(r)
                 /\ resp' = Respond(req,
                        IF r.success THEN Json(<<>>, -1) ELSE HTTPError(400),
                        r.calls, r.faults)
                 /\ UNCHANGED <<storage, nextUuid, sessions, clientSession, services>>

----------------------------------------------------------------------------
(* api/clip_api.py: the header check is inside the try block *)

\* image_text_similarity reads attributes _load_model sets only when it
\* succeeds: AttributeError otherwise
\* (variant: the image is uploaded before the similarity is computed)
clip_similarity_body_UploadFirst(t, img, filename, inf, up, ins) ==
    LET score == CHOOSE x \in Scores : TRUE
        u == upload_image(t, filename, up)
        r == create_clip_analysis(t, u.url, score, ins)
    IN  IF img # "ok"
            THEN Run(Unhandled, <<>>, {}, tables, storage, vision)
        ELSE IF ~u.success
            THEN Run(HTTPError(400), u.calls, u.faults, tables, u.storage,
                     vision)
        ELSE IF ~clip.model_loaded \/ inf = "fail"
            THEN Run(Unhandled, u.calls \o <<"inference">>, {"inference"},
                     tables, u.storage, vision)
        ELSE Run(JsonResult(score, u.url,
                            IF r.success THEN r.data[1].id ELSE 0),
                 u.calls \o <<"inference">> \o r.calls, r.faults, r.tables,
                 u.storage, vision)

clip_similarity_body(t, img, filename, inf, up, ins) ==
    LET score == CHOOSE x \in Scores : TRUE
        u == upload_image(t, filename, up)
        r == create_clip_analysis(t, u.url, score, ins)
    IN  IF img # "ok"
            THEN Run(Unhandled, <<>>, {}, tables, storage, vision)
        ELSE IF ~clip.model_loaded
            THEN Run(Unhandled, <<>>, {}, tables, storage, vision)
        ELSE IF inf = "fail"
            THEN Run(Unhandled, <<"inference">>, {"inference"}, tables,
                     storage, vision)
        ELSE IF ~u.success
            THEN Run(HTTPError(400), <<"inference">> \o u.calls, u.faults,
                     tables, u.storage, vision)
        ELSE IF r.success /\ r.data = <<>>
            THEN Run(Unhandled, <<"inference">> \o u.calls \o r.calls, {}, r.tables,
                     u.storage, vision)
        ELSE Run(JsonResult(score, u.url,
                            IF r.success THEN r.data[1].id ELSE 0),
                 <<"inference">> \o u.calls \o r.calls, r.faults, r.tables,
                 u.storage, vision)

clip_similarity_replying(replies) ==
    /\ Idling
    /\ \E h \in Headers, img \in Images, filename \in Filenames,
          inf \in CallOutcomes, up \in UploadChoices, ins \in replies :
        LET req == Upload_Request("clip_similarity", h, img)
            run == IF ~HasBearer(h)
                   THEN Run(HTTPError(401), <<>>, {}, tables, storage, vision)
                   ELSE clip_similarity_body(h.token, img, filename, inf, up, ins)
        IN  Finish(req, run, ExceptHTTPException(run.out))

clip_similarity == clip_similarity_replying(InsertChoices)

----------------------------------------------------------------------------
(* api/autoglm_api.py: AutoGLMModelService builds its pipeline in __init__   *)
(* and has no unloaded state                                                 *)

autoglm_infer_body(t, url, inf, ins) ==
    LET caption == CHOOSE c \in Captions : TRUE
        r == create_autoglm_analysis(t, url, caption, ins)
    IN  IF inf = "fail"
            THEN Run(Unhandled, <<"inference">>, {"inference"}, tables,
                     storage, vision)
        ELSE IF r.success /\ r.data = <<>>
            THEN Run(Unhandled, <<"inference">> \o r.calls, {}, r.tables,
                     storage, vision)
        ELSE Run(JsonResult(caption, url,
                            IF r.success THEN r.data[1].id ELSE 0),
                 <<"inference">> \o r.calls, r.faults, r.tables, storage,
                 vision)

autoglm_infer_replying(replies) ==
    /\ Idling
    /\ \E h \in Headers, url \in ClientUrls, inf \in CallOutcomes,
          ins \in replies :
        LET req == Request("autoglm_infer", h, 0, NoPayload)
            run == autoglm_infer_body(h.token, url, inf, ins)
        IN  IF ~HasBearer(h) THEN Rejected(req)
            ELSE Finish(req, run, ExceptException(run.out))

autoglm_infer == autoglm_infer_replying(InsertChoices)

----------------------------------------------------------------------------
(* api/mnist_api.py: the TorchScript model is loaded when the module is    *)
(* imported                                                                *)

mnist_infer_body(t, img, filename, inf, up, ins) ==
    LET pred == CHOOSE d \in Digits : TRUE
        u == upload_mnist_image(t, filename, up)
        r == create_mnist_analysis(t, u.url, pred, ins)
    IN  IF img # "ok"
            THEN Run(Unhandled, <<>>, {}, tables, storage, vision)
        ELSE IF inf = "fail"
            THEN Run(Unhandled, <<"inference">>, {"inference"}, tables,
                     storage, vision)
        ELSE IF ~u.success
            THEN Run(HTTPError(400), <<"inference">> \o u.calls, u.faults,
                     tables, u.storage, vision)
        ELSE IF r.success /\ r.data = <<>>
            THEN Run(Unhandled, <<"inference">> \o u.calls \o r.calls, {}, r.tables,
                     u.storage, vision)
        ELSE Run(JsonResult(pred, u.url,
                            IF r.success THEN r.data[1].id ELSE 0),
                 <<"inference">> \o u.calls \o r.calls, r.faults, r.tables,
                 u.storage, vision)

mnist_infer_replying(replies) ==
    /\ Idling
    /\ \E h \in Headers, img \in Images, filename \in Filenames,
          inf \in CallOutcomes, up \in UploadChoices, ins \in replies :
        LET req == Upload_Request("mnist_infer", h, img)
            run == mnist_infer_body(h.token, img, filename, inf, up, ins)
        IN  IF ~HasBearer(h) THEN Rejected(req)
            ELSE Finish(req, run, ExceptHTTPException(run.out))

mnist_infer == mnist_infer_replying(InsertChoices)

----------------------------------------------------------------------------
(* The identity provider's users, and the sessions it issues.  One token   *)
(* stands for the session of each user.                                    *)

UserDirectory ==
    [u \in Users |->
        IF u = "alice"
        THEN [id |-> "alice", email |-> "alice@mail", password |-> "pw-a",
              user_metadata |-> [full_name |-> "Alice A"]]
        ELSE [id |-> "bob", email |-> "bob@mail", password |-> "pw-b",
              user_metadata |-> [plan |-> "free"]]]

\* the access token of the session the provider opens for a user
TokenOf(u) == CHOOSE t \in Tokens : TokenOwner(t) = u

\* request bodies of POST /api/auth/login
Credentials ==
    {[email |-> "alice@mail", password |-> "pw-a"],
     [email |-> "bob@mail", password |-> "pw-b"],
     [email |-> "alice@mail", password |-> "pw-b"]}

\* {"id": user.id, "email": user.email,
\*  "full_name": user.user_metadata.get("full_name", "")}
UserDict(user) ==
    [id |-> user.id, email |-> user.email,
     full_name |-> IF "full_name" \in DOMAIN user.user_metadata
                   THEN user.user_metadata.full_name ELSE ""]

\* (variant: the metadata is not read)
get_user_dict_NoMetadata(t) ==
    IF get_user(t) = NoUser THEN <<>>
    ELSE <<[UserDict(UserDirectory[get_user(t)]) EXCEPT !.full_name = ""]>>

\* SupabaseService.get_user: the dictionary, <<>> for None
get_user_dict(t) ==
    IF get_user(t) = NoUser THEN <<>>
    ELSE <<UserDict(UserDirectory[get_user(t)])>>

\* sign_in: auth.sign_in_with_password on the shared client, which then
\* holds the session; wrong credentials and a failed call raise
sign_in(c, out) ==
    LET known == {u \in Users : /\ UserDirectory[u].email = c.email
                                /\ UserDirectory[u].password = c.password}
        u == CHOOSE u \in known : TRUE
    IN  IF out = "fail" \/ known = {}
        THEN [success |-> FALSE, user |-> <<>>, access_token |-> NoToken,
              calls |-> <<"auth">>,
              faults |-> IF out = "fail" THEN {"auth"} ELSE {},
              sessions |-> sessions, clientSession |-> clientSession]
        ELSE [success |-> TRUE, user |-> <<UserDict(UserDirectory[u])>>,
              access_token |-> TokenOf(u),
              calls |-> <<"auth">>, faults |-> {},
              sessions |-> sessions \cup {TokenOf(u)},
              clientSession |-> TokenOf(u)]

----------------------------------------------------------------------------
(* api/auth.py *)

\* POST /api/auth/login; the access token is the result of the response
login ==
    /\ Idling
    /\ \E c \in Credentials, out \in CallOutcomes :
        LET req == Request("login", NoHeader, 0, NoPayload)
            r == sign_in(c, out)
        IN  /\ sessions' = r.sessions
            /\ clientSession' = r.clientSession
            /\ resp' = Respond(req,
                   IF r.success
                   THEN [Json(r.user, -1) EXCEPT !.result = r.access_token]
                   ELSE HTTPError(401),
                   r.calls, r.faults)
            /\ UNCHANGED <<tables, nextId, clock, storage, nextUuid, services>>

\* sign_out(access_token): auth.sign_out() takes no token; it ends the
\* session the shared client holds, if it holds one
sign_out(t, out) ==
    IF out = "fail"
    THEN [success |-> FALSE, calls |-> <<"auth">>, faults |-> {"auth"},
          sessions |-> sessions, clientSession |-> clientSession]
    ELSE [success |-> TRUE, calls |-> <<"auth">>, faults |-> {},
          sessions |-> sessions \ {clientSession},
          clientSession |-> NoToken]

logout ==
    /\ Idling
    /\ \E h \in Headers, out \in CallOutcomes :
        LET req == Request("logout", h, 0, NoPayload)
            r == sign_out(h.token, out)
        IN  IF ~HasBearer(h) THEN Rejected(req)
            ELSE /\ sessions' = r.sessions
                 /\ clientSession' = r.clientSession
                 /\ resp' = Respond(req,
                        IF r.success THEN Json(<<>>, -1) ELSE HTTPError(400),
                        r.calls, r.faults)
                 /\ UNCHANGED <<tables, nextId, clock, storage, nextUuid, services>>

get_user_ep ==
    /\ Idling
    /\ \E h \in Headers :
        LET req == Request("get_user", h, 0, NoPayload)
            user == get_user(h.token)
        IN  IF ~HasBearer(h) THEN Rejected(req)
            ELSE /\ resp' = Respond(req,
                        IF user # NoUser THEN Json(get_user_dict(h.token), -1)
                        ELSE HTTPError(401),
                        <<"auth">>, {})
                 /\ UNCHANGED <<provider, services>>

----------------------------------------------------------------------------
(* The status endpoints: no authorization header is read *)

\* a 200 whose body is the dictionary returned, `success` as the body has it
JsonStatus(success, loading_status) ==
    [JsonResult(loading_status, NoUrl, 0) EXCEPT !.success = success]

Status(ep, out) ==
    /\ Idling
    /\ resp' = Respond(Request(ep, NoHeader, 0, NoPayload), out, <<>>, {})
    /\ UNCHANGED <<provider, services>>

\* return {"success": True, "model_loaded": ..., "status": ..., ...}
get_vision_status ==
    Status("get_vision_status",
           JsonStatus("true", get_loading_status(vision).status))

\* return {"success": True, "model": ..., "status": status}
get_pneumonia_status ==
    Status("get_pneumonia_status",
           JsonStatus("true", get_loading_status(pneumonia).status))

\* return clip_model_service.get_loading_status(): loaded, status, progress
clip_model_status ==
    Status("clip_model_status",
           JsonStatus("absent", get_loading_status(clip).status))

\* return autoglm_model_service.get_loading_status(): loaded, model_name
autoglm_status ==
    Status("autoglm_status", JsonStatus("absent", "Ready"))

StatusEndpoints == {"get_vision_status", "get_pneumonia_status",
                    "clip_model_status", "autoglm_status"}

----------------------------------------------------------------------------
(* The upload methods of SupabaseService, called on their own with any     *)
(* token and filename.  The result dictionary is shown as a response of    *)
(* status 0.                                                               *)

\* filenames with an extension, with two dots and with none
UploadFilenames == {<<"scan", "png">>, <<"scan", "v2", "JPG">>, <<"scan">>}

\* {"success": ..., "url": ...}
UploadResult(u) ==
    [JsonResult(NoResult, u.url, 0)
        EXCEPT !.status = 0,
               !.success = IF u.success THEN "true" ELSE "false"]

UploadCall(method, t, u) ==
    /\ Idling
    /\ storage' = u.storage
    /\ nextUuid' = NextUuidAfter(u.storage)
    /\ resp' = Respond(Request(method, [kind |-> "bearer", token |-> t], 0,
                               NoPayload),
                       UploadResult(u), u.calls, u.faults)
    /\ UNCHANGED <<tables, nextId, clock, sessions, clientSession, services>>

upload_image_call ==
    \E t \in Tokens, filename \in UploadFilenames, out \in UploadChoices :
        UploadCall("upload_image", t, upload_image(t, filename, out))

upload_mnist_image_call ==
    \E t \in Tokens, filename \in UploadFilenames, out \in UploadChoices :
        UploadCall("upload_mnist_image", t,
                   upload_mnist_image(t, filename, out))

upload_pneumonia_image_call ==
    \E t \in Tokens, filename \in UploadFilenames, out \in UploadChoices :
        UploadCall("upload_pneumonia_image", t,
                   upload_pneumonia_image(t, filename, out))

----------------------------------------------------------------------------
(* The client receives the response *)

Deliver ==
    /\ ~Idling
    /\ resp' = Idle
    /\ UNCHANGED <<provider, services>>

----------------------------------------------------------------------------
(* After construction *)

InitProvider ==
    /\ tables = [tbl \in TableNames |-> {}]
    /\ nextId = [tbl \in TableNames |-> 1]
    /\ clock = 1
    /\ storage = {}
    /\ nextUuid = 1
    /\ sessions = {"ta", "tb"}
    /\ clientSession = NoToken
    /\ resp = Idle

\* every model loaded at startup
Init ==
    /\ InitProvider
    /\ vision = Loaded
    /\ pneumonia = Loaded
    /\ clip = Loaded

Next ==
    \/ create_record
    \/ get_records
    \/ get_record
    \/ update_record
    \/ delete_record
    \/ analyze_image
    \/ get_analysis_history
    \/ get_analysis
    \/ delete_analysis
    \/ analyze_xray
    \/ get_pneumonia_history
    \/ get_pneumonia_analysis_ep
    \/ delete_pneumonia_analysis_ep
    \/ clip_similarity
    \/ autoglm_infer
    \/ mnist_infer
    \/ logout
    \/ get_user_ep
    \/ get_vision_status
    \/ get_pneumonia_status
    \/ clip_model_status
    \/ autoglm_status
    \/ Deliver

Spec == Init /\ [][Next]_vars

\* the inference endpoints, each model loaded at startup or not
InitModels ==
    /\ InitProvider
    /\ vision \in {Loaded, LoadFailed}
    /\ pneumonia \in {Loaded, LoadFailed}
    /\ clip \in {Loaded, LoadFailed}

NextModels ==
    \/ analyze_image
    \/ analyze_xray
    \/ clip_similarity
    \/ autoglm_infer
    \/ mnist_infer
    \/ Deliver

SpecModels == InitModels /\ [][NextModels]_vars

\* from the import of the model modules on: the status endpoints and the
\* one handler that loads a model
InitStartup ==
    /\ InitProvider
    /\ vision = NotStarted
    /\ pneumonia = NotStarted
    /\ clip = NotStarted

NextStartup ==
    \/ import_vision_model
    \/ import_pneumonia_model
    \/ import_clip_model
    \/ Started /\ get_vision_status
    \/ Started /\ get_pneumonia_status
    \/ Started /\ clip_model_status
    \/ Started /\ analyze_image
    \/ Started /\ Deliver

SpecStartup == InitStartup /\ [][NextStartup]_vars

\* the inference endpoints that answer whatever the insert does, with every
\* reply an insert can give
NextInserts ==
    \/ analyze_xray_replying(InsertReplies)
    \/ clip_similarity_replying(InsertReplies)
    \/ autoglm_infer_replying(InsertReplies)
    \/ mnist_infer_replying(InsertReplies)
    \/ Deliver

SpecInserts == Init /\ [][NextInserts]_vars

\* the storage uploads alone
NextUploads ==
    \/ upload_image_call
    \/ upload_mnist_image_call
    \/ upload_pneumonia_image_call
    \/ Deliver

SpecUploads == Init /\ [][NextUploads]_vars

\* the authentication endpoints and one endpoint that takes their tokens,
\* no session open at the start
InitAuth ==
    /\ tables = [tbl \in TableNames |-> {}]
    /\ nextId = [tbl \in TableNames |-> 1]
    /\ clock = 1
    /\ storage = {}
    /\ nextUuid = 1
    /\ sessions = {}
    /\ clientSession = NoToken
    /\ vision = Loaded
    /\ pneumonia = Loaded
    /\ clip = Loaded
    /\ resp = Idle

NextAuth ==
    \/ login
    \/ logout
    \/ get_user_ep
    \/ get_records
    \/ Deliver

SpecAuth == InitAuth /\ [][NextAuth]_vars

\* labels and scores a pipeline entry can carry
PipeLabels == {"PNEUMONIA", "pneumonia", "Pneumonia", "NORMAL", "normal"}
PipeScores == 0..100

\* the classifier alone, on every top entry a pipeline can return
InitClassify ==
    /\ tables = [tbl \in TableNames |-> {}]
    /\ nextId = [tbl \in TableNames |-> 1]
    /\ clock = 1
    /\ storage = {}
    /\ nextUuid = 1
    /\ sessions = {"ta", "tb"}
    /\ clientSession = NoToken
    /\ vision = Loaded
    /\ pneumonia = Loaded
    /\ clip = Loaded
    /\ resp \in {[Idle EXCEPT !.ep = "pipeline",
                              !.pipe = <<[label |-> l, score |-> c]>>] :
                    l \in PipeLabels, c \in PipeScores}

NextClassify == Classify

\* the classifier on the lists a pipeline can return: none, one or two
\* scored labels, in either order
OrderLabels == {"PNEUMONIA", "NORMAL"}
OrderScores == {4, 30, 50, 70, 96}
OrderEntries == [label : OrderLabels, score : OrderScores]
PipelineLists ==
    {<<>>} \cup {<<a>> : a \in OrderEntries}
           \cup {<<a, b>> : a \in OrderEntries, b \in OrderEntries}

InitOrder ==
    /\ tables = [tbl \in TableNames |-> {}]
    /\ nextId = [tbl \in TableNames |-> 1]
    /\ clock = 1
    /\ storage = {}
    /\ nextUuid = 1
    /\ sessions = {"ta", "tb"}
    /\ clientSession = NoToken
    /\ vision = Loaded
    /\ pneumonia = Loaded
    /\ clip = Loaded
    /\ \E results \in PipelineLists :
          resp = [Idle EXCEPT !.ep = "pipeline", !.pipe = results]

SpecOrder == InitOrder /\ [][NextClassify]_vars

SpecClassify == InitClassify /\ [][NextClassify]_vars

----------------------------------------------------------------------------
(* Properties.  A state with ~Idling shows one request: what was asked     *)
(* (resp.ep, resp.hdr, ...), the tables before it (resp.pre), the tables   *)
(* after it (tables) and the answer.                                       *)

\* the user the provider resolves the request's token to
Caller == ProviderUser(sessions, resp.hdr.token)
BearerSent == resp.hdr.kind = "bearer"

ValidToken == BearerSent /\ Caller \in Users

IdsOf(rows) == {r.id : r \in rows}

\* C1: with A's valid token, getById, update and delete of a record owned
\* by another user B answer 404 and return none of the record (the provider
\* calls themselves succeeding)
C1_CrossOwnerIsNotFound ==
    \A r \in resp.pre["health_records"] :
        ( /\ resp.ep \in {"get_record", "update_record", "delete_record"}
          /\ ValidToken
          /\ resp.faults = {}
          /\ r.id = resp.id
          /\ r.user_id # Caller )
        => (resp.status = 404 /\ resp.data = <<>>)

\* C2: a well-formed Bearer header whose token the provider rejects is
\* answered 401 on every endpoint that takes a bearer token
C2_RejectedTokenIs401 ==
    (~Idling /\ BearerSent /\ Caller = NoUser) => resp.status = 401

\* C3: a request without a Bearer header to an endpoint that takes a bearer
\* token is answered 401 and makes no provider or inference call and changes
\* no table
C3_NoBearerIs401 ==
    (~Idling /\ resp.ep \notin StatusEndpoints /\ ~BearerSent)
    => (resp.status = 401 /\ resp.calls = <<>> /\ tables = resp.pre)

C3_Witness ==
    /\ resp.ep = "clip_similarity"
    /\ resp.hdr.kind = "other"
    /\ resp.status = 401

CreateEndpoint(tbl) ==
    CASE tbl = "health_records" -> "create_record"
      [] tbl = "vision_analysis" -> "analyze_image"
      [] tbl = "pneumonia_analyses" -> "analyze_xray"
      [] tbl = "mnist_analyses" -> "mnist_infer"
      [] tbl = "clip_analyses" -> "clip_similarity"
      [] tbl = "autoglm_analyses" -> "autoglm_infer"

DeleteEndpoint(tbl) ==
    CASE tbl = "health_records" -> "delete_record"
      [] tbl = "vision_analysis" -> "delete_analysis"
      [] tbl = "pneumonia_analyses" -> "delete_pneumonia_analysis"
      [] OTHER -> "none"

\* C4: a request changes the stored rows only so: a row with a new id comes
\* from the table's POST and belongs to the caller; a row's fields change
\* only in health_records, by update_record on that id with its owner's
\* token; a row goes only by the table's DELETE on that id with its owner's
\* token
C4_RowsChangeOnlyByOwner ==
    ~Idling =>
    \A tbl \in TableNames :
        /\ \A r \in tables[tbl] \ resp.pre[tbl] :
              IF r.id \notin IdsOf(resp.pre[tbl])
              THEN resp.ep = CreateEndpoint(tbl) /\ r.user_id = Caller
              ELSE /\ tbl = "health_records"
                   /\ resp.ep = "update_record"
                   /\ r.id = resp.id
                   /\ r.user_id = Caller
        /\ \A r \in resp.pre[tbl] \ tables[tbl] :
              IF r.id \in IdsOf(tables[tbl])
              THEN /\ tbl = "health_records"
                   /\ resp.ep = "update_record"
                   /\ r.id = resp.id
                   /\ r.user_id = Caller
                   /\ \E q \in tables[tbl] :
                         q.id = r.id /\ q.user_id = r.user_id
              ELSE /\ resp.ep = DeleteEndpoint(tbl)
                   /\ r.id = resp.id
                   /\ r.user_id = Caller

\* an owner's delete took one row and left another user's row
C4_Witness ==
    /\ resp.ep = "delete_record"
    /\ \E r \in resp.pre["health_records"] \ tables["health_records"] :
          \E q \in tables["health_records"] : q.user_id # r.user_id

ListTable(ep) ==
    CASE ep = "get_records" -> "health_records"
      [] ep = "get_analysis_history" -> "vision_analysis"
      [] ep = "get_pneumonia_history" -> "pneumonia_analyses"

ListEndpoints ==
    {"get_records", "get_analysis_history", "get_pneumonia_history"}

\* C6: a list answered 200 holds each row of the caller once and no other
\* row, by date descending (health records) or creation time descending
\* (analyses), and count is the number of rows returned
C6_ListIsOwnRowsOrdered ==
    (resp.ep \in ListEndpoints /\ resp.status = 200) =>
        LET own == {r \in tables[ListTable(resp.ep)] : r.user_id = Caller}
            d == resp.data
        IN  /\ Range(d) = own
            /\ Len(d) = Cardinality(own)
            /\ resp.count = Len(d)
            /\ \A i, j \in DOMAIN d : i < j =>
                  IF resp.ep = "get_records"
                  THEN d[i].date >= d[j].date
                  ELSE d[i].created_at >= d[j].created_at

\* two records of one owner, the later date first though it was created last
C6_Witness ==
    /\ resp.ep = "get_records"
    /\ resp.status = 200
    /\ Len(resp.data) = 2
    /\ resp.data[1].date > resp.data[2].date
    /\ resp.data[1].created_at > resp.data[2].created_at

GetTable(ep) ==
    CASE ep = "get_record" -> "health_records"
      [] ep = "get_analysis" -> "vision_analysis"
      [] ep = "get_pneumonia_analysis" -> "pneumonia_analyses"

GetEndpoints == {"get_record", "get_analysis", "get_pneumonia_analysis"}

\* C7: GET by id with a valid token for an id no row of the table has is
\* answered 404
C7_UnknownIdIs404 ==
    ( /\ resp.ep \in GetEndpoints
      /\ ValidToken
      /\ resp.id \notin IdsOf(resp.pre[GetTable(resp.ep)]) )
    => resp.status = 404

\* the provider answered: the table has rows, none with the id asked for
C7_Witness ==
    /\ resp.ep = "get_pneumonia_analysis"
    /\ ValidToken
    /\ resp.faults = {}
    /\ resp.pre["pneumonia_analyses"] # {}
    /\ resp.id \notin IdsOf(resp.pre["pneumonia_analyses"])
    /\ resp.status = 404

\* C8: update and delete with a valid token on an id no record has answer
\* NotFound (the provider call itself succeeding)
C8_UnknownIdWriteIsNotFound ==
    ( /\ resp.ep \in {"update_record", "delete_record"}
      /\ ValidToken
      /\ resp.faults = {}
      /\ resp.id \notin IdsOf(resp.pre["health_records"]) )
    => resp.status = 404

\* C9: a request in which a storage upload or a table insert or update
\* raised is answered 400
C9_UpstreamFailureIs400 ==
    (~Idling /\ resp.faults \cap {"upload", "insert", "update"} # {})
    => resp.status = 400

\* whether the pipeline behind the endpoint was loaded when the request came
PipelineLoaded ==
    CASE resp.ep = "analyze_image" -> resp.loaded.vision
      [] resp.ep = "analyze_xray" -> resp.loaded.pneumonia
      [] resp.ep = "clip_similarity" -> resp.loaded.clip
      [] OTHER -> TRUE

\* C10: an inference request with a valid token and a readable image that
\* arrives while the endpoint's pipeline is not loaded is answered 503 (no
\* provider call raising)
C10_NotLoadedIs503 ==
    ( /\ resp.ep \in {"analyze_image", "analyze_xray", "clip_similarity",
                      "autoglm_infer"}
      /\ ValidToken
      /\ resp.image \in {"ok", "none"}
      /\ resp.faults = {}
      /\ ~PipelineLoaded )
    => resp.status = 503

\* the request's upload was made and did not raise
Uploaded == "upload" \in Range(resp.calls) /\ "upload" \notin resp.faults

\* C11: analyze_xray with a valid token, a non-empty image, the model loaded,
\* the upload made and the classifier returning a label answers 200 with
\* success true, the classifier's label as prediction and the URL of the
\* object this request uploaded as image_url (whether or not the insert
\* that follows succeeds)
C11_XrayAnalyzeAnswers ==
    ( /\ resp.ep = "analyze_xray"
      /\ ValidToken
      /\ resp.image # "empty"
      /\ resp.loaded.pneumonia
      /\ Uploaded
      /\ resp.pipe # <<>> )
    => /\ resp.status = 200
       /\ resp.success = "true"
       /\ resp.result = resp.pipe[1].label
       /\ resp.result \in Labels
       /\ resp.image_url \in storage
       /\ resp.image_url.bucket = "pneumonia_images"
       /\ resp.image_url.uid = nextUuid - 1

\* an X-ray read as PNEUMONIA, answered though its row could not be stored
C11_Witness ==
    /\ resp.ep = "analyze_xray"
    /\ ValidToken
    /\ Uploaded
    /\ resp.result = "PNEUMONIA"
    /\ "insert" \in resp.faults
    /\ resp.status = 200

\* the input and the output of a classification
Label == resp.pipe[1].label
Confidence == resp.pipe[1].score
Positive == Label \in {"PNEUMONIA", "pneumonia", "Pneumonia"}

\* C12: the severity of a classification is "Normal" when the label is not
\* PNEUMONIA in any case of letters, and otherwise the high tier from 0.95,
\* the moderate tier from 0.80, the low tier from 0.60 and unclear below
C12_SeverityTiers ==
    resp.ep = "classify_xray" =>
        resp.classification.severity =
            IF ~Positive THEN "Normal"
            ELSE IF Confidence >= 95 THEN "High Confidence - Pneumonia Detected"
            ELSE IF Confidence >= 80 /\ Confidence < 95
                THEN "Moderate Confidence - Pneumonia Likely"
            ELSE IF Confidence >= 60 /\ Confidence < 80
                THEN "Low Confidence - Pneumonia Possible"
            ELSE "Very Low Confidence - Unclear"

\* a lower-case positive label exactly on the 0.95 boundary
C12_Witness ==
    /\ resp.ep = "classify_xray"
    /\ Label = "pneumonia"
    /\ Confidence = 95
    /\ resp.classification.severity = "High Confidence - Pneumonia Detected"

\* C13: every confidence that falls in the same severity tier as the one
\* classified, for the same label, gets the same recommendation
C13_RecommendationFollowsSeverity ==
    resp.ep = "classify_xray" =>
        \A c \in PipeScores :
            determine_severity(c, Positive) = resp.classification.severity
            => get_recommendation(Positive, c) = resp.classification.recommendation

\* C14: every response, success or error, the status endpoints included,
\* carries a boolean `success` field
C14_EveryResponseHasSuccess ==
    ~Idling => resp.success \in {"true", "false"}

\* C15: GET /api/auth/user with a token of an open session answers 200 with
\* the identity (id, email, full name) that every login producing that token
\* returns
C15_GetUserIsLoginIdentity ==
    (resp.ep = "get_user" /\ ValidToken) =>
        /\ resp.status = 200
        /\ Len(resp.data) = 1
        /\ \A c \in Credentials :
              LET r == sign_in(c, "ok")
              IN  (r.success /\ r.access_token = resp.hdr.token)
                  => resp.data = r.user

\* alice, whose metadata holds a full name, asks who she is after logging in
C15_Witness ==
    /\ resp.ep = "get_user"
    /\ resp.hdr.token = "ta"
    /\ resp.status = 200
    /\ resp.data[1].full_name = "Alice A"

\* C16: a logout answered 200 has ended the session of the token presented,
\* and a logout presenting a token no session has is not answered 200
C16_LogoutEndsPresentedSession ==
    (resp.ep = "logout" /\ BearerSent) =>
        /\ resp.status = 200 => resp.hdr.token \notin sessions
        /\ TokenOwner(resp.hdr.token) = NoUser => resp.status # 200

\* the objects the request wrote to storage
Written == storage \ resp.stored

\* C17: a request whose upload succeeded wrote exactly one object, at a path
\* no object had, in the folder of the user its token resolves to and with
\* an extension; a request without a successful upload wrote none
C17_UploadPathIsOwnAndNew ==
    /\ \A o \in storage : o.owner \in Users /\ o.uid > 0 /\ o.ext # ""
    /\ ~Idling =>
          IF Uploaded
          THEN /\ Cardinality(Written) = 1
               /\ Cardinality(storage) = Cardinality(resp.stored) + 1
               /\ \A o \in Written : o.owner = Caller
          ELSE Written = {}

\* bob uploads a file without extension while alice's object is stored
C17_Witness ==
    /\ resp.ep = "upload_image"
    /\ Uploaded
    /\ Caller = "bob"
    /\ \E o \in resp.stored : o.owner = "alice"
    /\ \E o \in Written : o.ext = "jpg" /\ o.bucket = "health-images"

AnalysisEndpoints == {"analyze_image", "analyze_xray", "clip_similarity",
                      "mnist_infer", "autoglm_infer"}

\* in the request's calls, every call b comes after a call a that returned
Precedes(a, b) ==
    \A i \in DOMAIN resp.calls :
        resp.calls[i] = b =>
            /\ a \notin resp.faults
            /\ \E j \in 1..(i - 1) : resp.calls[j] = a

\* no call is made for a request that failed the header check
HeaderCheckedFirst == resp.calls # <<>> => BearerSent

\* C18 as stated: in every analysis request the header check comes first,
\* the upload follows an inference that returned, and (where the endpoint
\* uploads) the insert follows an upload that returned
C18_InferenceUploadInsert ==
    resp.ep \in AnalysisEndpoints =>
        /\ HeaderCheckedFirst
        /\ Precedes("inference", "upload")
        /\ resp.ep # "autoglm_infer" => Precedes("upload", "insert")

\* C18 (amended): the header check comes first and the insert follows an
\* inference that returned and, where the endpoint uploads, an upload that
\* returned; the upload precedes the inference in the vision and pneumonia
\* endpoints and follows it in the clip and mnist endpoints
C18_OrderPerEndpoint ==
    resp.ep \in AnalysisEndpoints =>
        /\ HeaderCheckedFirst
        /\ Precedes("inference", "insert")
        /\ resp.ep # "autoglm_infer" => Precedes("upload", "insert")
        /\ resp.ep \in {"analyze_image", "analyze_xray"}
              => Precedes("upload", "inference")
        /\ resp.ep \in {"clip_similarity", "mnist_infer"}
              => Precedes("inference", "upload")

\* an X-ray uploaded, then classified, then stored
C18_Witness ==
    /\ resp.ep = "analyze_xray"
    /\ resp.calls = <<"auth", "upload", "inference", "auth", "insert">>
    /\ resp.faults = {}
    /\ resp.status = 200

UploadEndpoints == {"analyze_image", "analyze_xray", "clip_similarity",
                    "mnist_infer"}

\* the rows of the analysis tables
AnalysisRows == UNION {tables[tbl] : tbl \in TableNames \ {"health_records"}}

\* C20: when the upload of an analysis request succeeded and its insert
\* raised, the uploaded object is in storage, no row refers to it and the
\* request made no delete call
C20_FailedInsertLeavesOrphan ==
    ( /\ resp.ep \in UploadEndpoints
      /\ Uploaded
      /\ "insert" \in resp.faults )
    => /\ Cardinality(Written) = 1
       /\ \A o \in Written : \A r \in AnalysisRows : r.image_url # o
       /\ tables = resp.pre
       /\ "delete" \notin Range(resp.calls)

\* a second vision upload whose insert failed, one analysis already stored
C20_Witness ==
    /\ resp.ep = "analyze_image"
    /\ Uploaded
    /\ "insert" \in resp.faults
    /\ resp.status = 500
    /\ Cardinality(storage) = 2
    /\ Cardinality(tables["vision_analysis"]) = 1

C22_LogoutEndsOwnSessionOnly ==
    [][\A t \in sessions \ sessions' :
          /\ resp'.ep = "logout"
          /\ resp'.hdr.kind = "bearer"
          /\ resp'.hdr.token = t]_vars

\* the rows the request added to a table
NewRows(tbl) == tables[tbl] \ resp.pre[tbl]

\* C23: every row a request inserts, in any of the six tables, is owned by
\* the user the provider resolves from the bearer token of that request;
\* a request whose token resolves to no user inserts no row
C23_InsertedRowsOwnedByCaller ==
    ~Idling =>
        \A tbl \in TableNames : \A r \in NewRows(tbl) :
            /\ ValidToken
            /\ r.user_id = Caller

\* bob's request has added a row to the clip table while alice owns a row
\* of the same table
C23_Witness ==
    /\ ~Idling
    /\ resp.ep = "clip_similarity"
    /\ Caller = "bob"
    /\ NewRows("clip_analyses") # {}
    /\ \E r \in resp.pre["clip_analyses"] : r.user_id = "alice"

\* C24: a response to a request whose bearer token the provider rejects
\* carries no inference result: no caption, similarity or digit and no
\* classification
C24_NoResultForRejectedToken ==
    (~Idling /\ BearerSent /\ Caller = NoUser) =>
        /\ resp.result = NoResult
        /\ resp.classification = NoClassification

\* the request was turned down because its model is not ready
ModelNotReady ==
    \/ resp.ep = "analyze_image" /\ "load" \in resp.faults
    \/ /\ resp.ep = "analyze_xray"
       /\ ~resp.loaded.pneumonia
       /\ resp.status = 503

\* C25: a vision or pneumonia analyze request turned down because the
\* model is not ready has written nothing: storage and tables are as they
\* were before the request
C25_NotReadyWritesNothing ==
    ModelNotReady => (storage = resp.stored /\ tables = resp.pre)

\* the insert of the request was made, and whether it stored a row
InsertMade == "insert" \in Range(resp.calls)
RowInserted == \E tbl \in TableNames : NewRows(tbl) # {}

\* C26: analyze_xray whose upload and classification succeeded answers 200
\* with success true and the classification; analysis_id and created_at
\* are null when no row was inserted, and analysis_id is non-null exactly
\* when a row was inserted
C26_XrayAnswersWithoutRow ==
    ( /\ resp.ep = "analyze_xray"
      /\ Uploaded
      /\ resp.pipe # <<>>
      /\ InsertMade )
    => /\ resp.status = 200
       /\ resp.success = "true"
       /\ resp.classification = classify_xray(resp.pipe)
       /\ ~RowInserted => (resp.analysis_id = 0 /\ resp.created_at = 0)
       /\ resp.analysis_id # 0 <=> RowInserted

\* the insert raised nothing and stored nothing, and the X-ray was answered
C26_Witness ==
    /\ resp.ep = "analyze_xray"
    /\ Uploaded
    /\ InsertMade
    /\ "insert" \notin resp.faults
    /\ ~RowInserted
    /\ resp.status = 200
    /\ resp.classification # NoClassification

\* the model of the request ran and returned a result
Inferred ==
    "inference" \in Range(resp.calls) /\ "inference" \notin resp.faults

\* C27: mnist_infer, clip_similarity and autoglm_infer answer 200 with the
\* inference result once inference, and the upload where there is one, have
\* succeeded, whatever the insert replies; analysis_id is null when no row
\* was inserted
C27_AnswersWhateverInsertReplies ==
    ( /\ resp.ep \in {"mnist_infer", "clip_similarity", "autoglm_infer"}
      /\ Inferred
      /\ resp.ep # "autoglm_infer" => Uploaded )
    => /\ resp.status = 200
       /\ resp.result # NoResult
       /\ ~RowInserted => resp.analysis_id = 0

DeleteEndpoints ==
    {"delete_record", "delete_analysis", "delete_pneumonia_analysis"}

DeletedFrom(ep) ==
    CASE ep = "delete_record" -> "health_records"
      [] ep = "delete_analysis" -> "vision_analysis"
      [] ep = "delete_pneumonia_analysis" -> "pneumonia_analyses"

\* C28: after a delete answered 200, a get of the same id with the same
\* token (the provider answering) finds no row and is answered 404, no
\* list of the caller holds the id, and a second delete of the id succeeds
\* again and leaves every table as it is
C28_DeleteThenGetListDelete ==
    (resp.ep \in DeleteEndpoints /\ resp.status = 200) =>
        LET tbl == DeletedFrom(resp.ep)
            t == resp.hdr.token
            g == IF tbl = "health_records"
                 THEN get_health_record(t, resp.id, "ok")
                 ELSE GetAnalysis(tbl, t, resp.id, "ok")
            d == IF tbl = "health_records"
                 THEN delete_health_record(t, resp.id, "ok")
                 ELSE DeleteAnalysis(tbl, t, resp.id, "ok")
            column == IF tbl = "health_records" THEN ByDate ELSE ByCreatedAt
        IN  /\ ~g.success
            /\ get_record_response(g).status = 404
            /\ \A order \in OwnRows(tbl, t, column) :
                  resp.id \notin IdsOf(Range(order))
            /\ d.success
            /\ d.tables = tables

\* a delete that removed the addressed row of the caller and left them
\* another one
C28_Witness ==
    /\ resp.ep \in DeleteEndpoints
    /\ resp.status = 200
    /\ \E r \in resp.pre[DeletedFrom(resp.ep)] :
          /\ r.id = resp.id
          /\ r.user_id = Caller
          /\ r \notin tables[DeletedFrom(resp.ep)]
    /\ \E r \in tables["pneumonia_analyses"] : r.user_id = Caller

\* C29: the prediction and the confidence of a classification are those of
\* the first entry of all_predictions, which no entry outscores, for every
\* non-empty list the pipeline returns; the empty list gives no result
C29_PredictionIsTopOfAllPredictions ==
    resp.ep = "classify_xray" =>
        IF resp.pipe = <<>> THEN resp.classification = NoClassification
        ELSE LET all == resp.classification.all_predictions
             IN  /\ Len(all) = Len(resp.pipe)
                 /\ \A i \in 1..Len(all) : all[1].confidence >= all[i].confidence
                 /\ resp.classification.prediction = all[1].label
                 /\ resp.classification.confidence = all[1].confidence

\* the record a request addresses: the caller's row with the id of the path
Addressed(r) == r.id = resp.id /\ r.user_id = Caller

\* C30: after an update_record answered 200 the addressed record has the
\* posted title, description, category and date, all four, with the id,
\* the owner and the creation time it had; every other record, and every
\* other table, is as it was
C30_UpdateReplacesFourFields ==
    (resp.ep = "update_record" /\ resp.status = 200) =>
        /\ \A tbl \in TableNames \ {"health_records"} :
              tables[tbl] = resp.pre[tbl]
        /\ Cardinality(tables["health_records"]) =
              Cardinality(resp.pre["health_records"])
        /\ \A r \in resp.pre["health_records"] :
              IF Addressed(r)
              THEN \E q \in tables["health_records"] :
                     /\ q.id = r.id
                     /\ q.user_id = r.user_id
                     /\ q.created_at = r.created_at
                     /\ q.title = resp.payload.title
                     /\ q.description = resp.payload.description
                     /\ q.category = resp.payload.category
                     /\ q.date = resp.payload.date
              ELSE r \in tables["health_records"]

\* the caller's record rewritten with other values while another user's
\* record of the same content as before is stored
C30_Witness ==
    /\ resp.ep = "update_record"
    /\ resp.status = 200
    /\ \E r \in resp.pre["health_records"] :
          Addressed(r) /\ r.title # resp.payload.title
    /\ \E r \in tables["health_records"] : r.user_id # Caller

====
